---- MODULE Spec2Model ----
(***************************************************************************)
(* Model of the Redis-backed long-running-operation queue of rappel-rs     *)
(* (src/src/longrunning/redis.rs): RedisQueue::offer / pull / ack /        *)
(* complete, RedisBroker::enqueue and the projection of an operation hash   *)
(* into the wire-form Operation (impl FromRedisValue for Operation).        *)
(*                                                                         *)
(* The Redis store is two maps: `lists` (key -> list of strings) and        *)
(* `hashes` (key -> hash, a function from the fields that are set to their  *)
(* values; a key that does not exist is the empty hash).  Every MULTI/EXEC   *)
(* pipeline and every single command is one atomic step of the store.  A    *)
(* caller is suspended while its request is with the store and resumes in a *)
(* later step of its own; other callers interleave in between.              *)
(***************************************************************************)
EXTENDS Integers, Sequences, FiniteSets, TLC

\* ------------------------------------------------------------------ bounds
MaxOffers == 2          \* number of offer calls (UUIDs issued)
MaxCalls == 2           \* number of complete and ack calls
MaxTicks == 1           \* number of clock readings besides the first
MaxGets == 3            \* number of Get requests the waiter sends

\* ------------------------------------------------------- input domains
Queues == {"qa"}                       \* RedisQueue.queue
Ctx1 == [user_id |-> "u1", system_id |-> "s1"]
Ctx2 == [user_id |-> "u2", system_id |-> "s2"]
\* the RedisQueue instances: a queue name and the item type T, named by
\* Performable::type_name()
TaskQueue == [queue |-> "qa", task_type |-> "demo::Task"]
OtherQueue == [queue |-> "qa", task_type |-> "demo::Other"]
\* the producers: a RedisQueue instance and the Context of its calls
TaskProducer == [queue |-> "qa", task_type |-> "demo::Task", ctx |-> Ctx2]
OtherProducer == [queue |-> "qa", task_type |-> "demo::Other", ctx |-> Ctx1]
Producers == {TaskProducer, OtherProducer}
Workers == {"w1", "w2"}                \* concurrent callers of pull / ack
Completers == {"c1"}                   \* callers of complete
Callers == Workers \cup Completers
Ackers == {"w1"}                       \* the workers that call ack
WorkerCtx(w) == IF w = "w1" THEN Ctx1 ELSE Ctx2
WorkerQueues(w) == IF w = "w1" THEN {TaskQueue} ELSE {TaskQueue, OtherQueue}
Items == {10}                          \* Task { item }
Outputs == {7}                         \* M: a message with one int32 field
Errors == {5}                          \* E: converted into Status { code }
RpcErrors == {"Unavailable"}           \* tonic::Status of a failed Get
GhostId == "does-not-exist"            \* an id offer never returned
ClockStep == 600000000                 \* nanoseconds between two clock readings
NanosPerSec == 1000000000
None == "None"                         \* Option::None / absent
NoCtx == [user_id |-> None, system_id |-> None]
NoData == <<>>                         \* Option<T>::None
EmptyHash == [f \in {} |-> ""]         \* a key that does not exist; HashMap::default()
Some(x) == <<x>>                       \* Option<T>::Some(x)

\* ------------------------------------------------------------- variables
VARIABLES
  lists,      \* Redis lists, by key
  hashes,     \* Redis hashes, by key
  now,        \* Utc::now().timestamp_nanos()
  issued,     \* number of UUIDs generated so far
  offering,   \* per producer: the offer it is inside, between its samples and its pipeline
  pc,         \* per caller: where it is inside pull / ack / complete
  calls,      \* number of complete and ack calls made
  offered,    \* history: the offers, in the order their pipelines ran, each with
              \*          the Operation handed to the caller once it has returned
  pulled,     \* history: ids moved by pull's LMOVE, in order
  returned,   \* history: the messages returned by pull, in the order of the returns
  failed,     \* history: the calls that returned no value: the pulls that ended in
              \*          an error, in Ok(None) or were dropped, the acks that
              \*          ended in NotFound
  acked,      \* history: the ack_ids for which ack returned Ok
  completed,  \* history: id -> the outcomes its completes have stored, in order
  waiter      \* longrunning::wait: its position, its Get traffic, its result

vars == <<lists, hashes, now, issued, offering, pc, calls,
          offered, pulled, returned, failed, acked, completed, waiter>>

\* the store and the queue's clients, i.e. everything but the waiter
qvars == <<lists, hashes, now, issued, offering, pc, calls,
           offered, pulled, returned, failed, acked, completed>>

\* ------------------------------------------------------------ store keys
Uuid(n) == "id" \o ToString(n)
IdUniverse == {Uuid(n) : n \in 1..MaxOffers} \cup {GhostId}
\* the ids whose offer has run its pipeline, and with them an id no offer made
OfferedIds == {offered[i].id : i \in 1..Len(offered)}
KnownIds == OfferedIds \cup {GhostId}

ReadyKey(q) == "queue:" \o q
AckKey(q) == "queue:ack:" \o q
OperationKey(id) == "operation:" \o id
ListKeys == {ReadyKey(q) : q \in Queues} \cup {AckKey(q) : q \in Queues}
HashKeys == {OperationKey(id) : id \in IdUniverse}

\* ------------------------------------------------------- Redis commands
HSetMultiple(h, new) ==
  [f \in (DOMAIN h) \cup (DOMAIN new) |-> IF f \in DOMAIN new THEN new[f] ELSE h[f]]

HSet(h, field, value) == HSetMultiple(h, [f \in {field} |-> value])

HGet(h, field) == IF field \in DOMAIN h THEN h[field] ELSE None

\* RPUSH where LPUSH belongs
LPushTail(list, v) == Append(list, v)

LPush(list, v) == <<v>> \o list

Elems(list) == {list[i] : i \in 1..Len(list)}

Count(list, v) == Cardinality({i \in 1..Len(list) : list[i] = v})

\* LREM key count value, count < 0: remove up to -count occurrences of value,
\* scanning from the tail.
RECURSIVE LRem(_, _, _)
LRem(list, count, v) ==
  IF list = <<>> \/ count >= 0 THEN list
  ELSE IF list[Len(list)] = v
       THEN LRem(SubSeq(list, 1, Len(list) - 1), count + 1, v)
       ELSE Append(LRem(SubSeq(list, 1, Len(list) - 1), count, v), list[Len(list)])

\* a copy instead of a move: the source keeps its tail
LMoveSrcKeep(src) == src
\* a pop without the push: the destination never receives the value
LMoveDstDrop(src, dst) == dst

\* LMOVE src dst RIGHT LEFT: the two lists after the move.
LMoveSrc(src) == SubSeq(src, 1, Len(src) - 1)
LMoveDst(src, dst) == <<src[Len(src)]>> \o dst

\* --------------------------------------------------------------- codecs
\* JsonCodec: Task { item } <-> "{\"item\":<n>}"
JsonEncode(item) == "{\"item\":" \o ToString(item) \o "}"
\* The decoder's Result<Option<T>, _>: the item whose encoding the buffer is,
\* absent for any other buffer; it reports no error of its own.
JsonItems == 0..15
JsonDecode(s) ==
  LET hits == {i \in JsonItems : JsonEncode(i) = s}
  IN [err |-> FALSE, v |-> IF hits # {} THEN Some(CHOOSE i \in hits : TRUE) ELSE NoData]

\* prost encode_to_vec of a message with one int32 field (tag 1, varint):
\* the default value 0 is not written.
EncodeToVec(v) == IF v = 0 THEN <<>> ELSE <<8, v>>
IntoStatus(e) == e
Outcomes == {[ok |-> TRUE, v |-> m] : m \in Outputs} \cup
            {[ok |-> FALSE, v |-> e] : e \in Errors}

\* ------------------------------------------------------------------ Init
\* A caller that is inside no call.  Inside a call the record holds the call's
\* arguments and locals: the id, the queue, the item type, the Context, the
\* clock sample (ts), the record read back (op) and the outcome to store (r).
\* Outside a call, dropped tells whether the caller's last call ran to its
\* return or its future was dropped at an await.
Idle == [state |-> "idle", id |-> None, queue |-> None, task_type |-> None,
         ctx |-> NoCtx, ts |-> NoData, op |-> EmptyHash, r |-> NoData,
         dropped |-> FALSE]
\* A caller whose call was dropped: it is inside no call and nothing was
\* returned to it.
Dropped == [Idle EXCEPT !.dropped = TRUE]

\* longrunning::wait has not been called.
NotWaiting ==
  [state |-> "idle", operation_id |-> None, outstanding |-> 0, log |-> <<>>,
   result |-> NoData]

Init ==
  /\ lists = [k \in ListKeys |-> <<>>]
  /\ hashes = [k \in HashKeys |-> EmptyHash]
  /\ now = 0
  /\ issued = 0
  /\ offering = [p \in Producers |-> NoData]
  /\ pc = [w \in Callers |-> Idle]
  /\ calls = 0
  /\ offered = <<>>
  /\ pulled = <<>>
  /\ returned = <<>>
  /\ failed = {}
  /\ acked = {}
  /\ completed = [id \in IdUniverse |-> NoData]
  /\ waiter = NotWaiting

\* Utc::now() is the wall clock of the calling host: between two samples it
\* may read later or earlier (the clock was set, or the callers run on hosts
\* whose clocks differ).
ClockValues == {k * ClockStep : k \in 0..MaxTicks}

Tick ==
  /\ \E t \in ClockValues \ {now} : now' = t
  /\ UNCHANGED <<lists, hashes, issued, pc, calls,
                 offered, pulled, returned, failed, acked, completed,
                 offering, waiter>>

\* ----------------------------------------------------------------- offer
\* offer writing the caller's system id where the user id belongs
OfferFieldsSystemId(id, q, t, ctx, item, publish_ts) ==
  [status |-> "New", operation_id |-> id, queue |-> q, publish_ts |-> publish_ts,
   task |-> JsonEncode(item), user_id |-> ctx.system_id, task_type |-> t]

OfferFields(id, q, t, ctx, item, publish_ts) ==
  [status |-> "New", operation_id |-> id, queue |-> q, publish_ts |-> publish_ts,
   task |-> JsonEncode(item), user_id |-> ctx.user_id, task_type |-> t]

\* RedisBroker::enqueue: the Operation handle built around the id offer returned.
Enqueue(id) ==
  [operation_id |-> id, metadata |-> EmptyHash, done |-> FALSE, error |-> NoData,
   response |-> EmptyHash, creation_ts |-> NoData, start_ts |-> NoData,
   end_ts |-> NoData]

\* RedisQueue::offer up to its first await: the UUID is drawn, the clock is
\* sampled and the item is handed to the encoder; the caller is then suspended
\* in get_async_connection().
OfferSample(p, item) ==
  /\ offering[p] = NoData
  /\ issued < MaxOffers
  /\ issued' = issued + 1
  /\ offering' = [offering EXCEPT ![p] =
                    Some([id |-> Uuid(issued + 1), publish_ts |-> now, item |-> item,
                          executed |-> FALSE])]
  /\ UNCHANGED <<lists, hashes, now, pc, calls, offered, pulled, returned, failed,
                 acked, completed, waiter>>

\* RedisQueue::offer, its atomic pipeline LPUSH queue:{q} id ; HSET operation:{id},
\* written with the id and the publish_ts sampled before the await, as the
\* store executes it; the caller is still suspended in query_async().
Offer(p) ==
  /\ offering[p] # NoData
  /\ ~offering[p][1].executed
  /\ LET id == offering[p][1].id
         publish_ts == offering[p][1].publish_ts
         item == offering[p][1].item
         q == p.queue
         t == p.task_type
         ctx == p.ctx
     IN /\ lists' = [lists EXCEPT ![ReadyKey(q)] = LPush(@, id)]
        /\ hashes' = [hashes EXCEPT ![OperationKey(id)] =
                        HSetMultiple(@, OfferFields(id, q, t, ctx, item, publish_ts))]
        /\ offered' = Append(offered, [id |-> id, queue |-> q, task_type |-> t,
                                       user_id |-> ctx.user_id,
                                       operation |-> NoData])
  /\ offering' = [offering EXCEPT ![p] = Some([@[1] EXCEPT !.executed = TRUE])]
  /\ UNCHANGED <<now, issued, pc, calls, pulled, returned, failed, acked, completed,
                 waiter>>

\* RedisQueue::offer returns Ok(id) once the reply of its pipeline has reached
\* the caller, and RedisBroker::enqueue wraps the id into its Operation; the
\* store has served other clients in between.
OfferReturn(p) ==
  /\ offering[p] # NoData
  /\ offering[p][1].executed
  /\ LET id == offering[p][1].id
         i == CHOOSE j \in 1..Len(offered) : offered[j].id = id
     IN offered' = [offered EXCEPT ![i].operation = Some(Enqueue(id))]
  /\ offering' = [offering EXCEPT ![p] = NoData]
  /\ UNCHANGED <<lists, hashes, now, issued, pc, calls, pulled, returned, failed,
                 acked, completed, waiter>>

\* ------------------------------------------------------------------ pull
\* Worker w is inside pull, its LMOVE executed.
InPull(w) == pc[w].state \in {"moved", "dequeuing", "read"}
\* Worker w is inside ack, its HGET executed.
InAck(w) == pc[w].state \in {"looked", "acking", "written"}

DequeueFields(ctx, dequeue_ts) ==
  [dequeue_system_id |-> ctx.system_id, dequeue_ts |-> dequeue_ts,
   dequeue_user_id |-> ctx.user_id]

\* pull pushing the nil it popped from an empty source onto queue:ack
PullMoveNilPush(w, q, t, ctx) ==
  /\ pc[w].state = "idle"
  /\ IF lists[ReadyKey(q)] = <<>>
     THEN /\ lists' = [lists EXCEPT ![AckKey(q)] = <<None>> \o @]
          /\ pc' = [pc EXCEPT ![w] = [Idle EXCEPT !.state = "moved", !.queue = q,
                                                  !.task_type = t, !.ctx = ctx]]
          /\ UNCHANGED pulled
     ELSE LET src == lists[ReadyKey(q)]
              dst == lists[AckKey(q)]
              id == src[Len(src)]
          IN /\ lists' = [lists EXCEPT ![ReadyKey(q)] = LMoveSrc(src),
                                       ![AckKey(q)] = LMoveDst(src, dst)]
             /\ pc' = [pc EXCEPT ![w] = [Idle EXCEPT !.state = "moved", !.id = id,
                                                     !.queue = q, !.task_type = t,
                                                     !.ctx = ctx]]
             /\ pulled' = Append(pulled, id)
  /\ UNCHANGED <<hashes, now, issued, calls, offered, returned, failed,
                 acked, completed,
                 offering, waiter>>

\* RedisQueue::pull, first round trip, as the store executes it:
\* LMOVE queue:{q} queue:ack:{q} RIGHT LEFT.  An empty source replies nil and
\* nothing is written.  The caller stays suspended until PullSample.
PullMove(w, q, t, ctx) ==
  /\ pc[w].state = "idle"
  /\ IF lists[ReadyKey(q)] = <<>>
     THEN /\ pc' = [pc EXCEPT ![w] = [Idle EXCEPT !.state = "moved", !.queue = q,
                                                  !.task_type = t, !.ctx = ctx]]
          /\ UNCHANGED <<lists, pulled>>
     ELSE LET src == lists[ReadyKey(q)]
              dst == lists[AckKey(q)]
              id == src[Len(src)]
          IN /\ lists' = [lists EXCEPT ![ReadyKey(q)] = LMoveSrc(src),
                                       ![AckKey(q)] = LMoveDst(src, dst)]
             /\ pc' = [pc EXCEPT ![w] = [Idle EXCEPT !.state = "moved", !.id = id,
                                                     !.queue = q, !.task_type = t,
                                                     !.ctx = ctx]]
             /\ pulled' = Append(pulled, id)
  /\ UNCHANGED <<hashes, now, issued, calls, offered, returned, failed,
                 acked, completed,
                 offering, waiter>>

\* The pull that found nothing to move.
EmptyPull == [id |-> None, res |-> "None"]

\* RedisQueue::pull resumes with the reply of its LMOVE: on nil it returns
\* Ok(None); on an id it samples the clock for dequeue_ts, sends its metadata
\* pipeline and is suspended again.
PullSample(w) ==
  /\ pc[w].state = "moved"
  /\ IF pc[w].id = None
     THEN /\ pc' = [pc EXCEPT ![w] = Idle]
          /\ failed' = failed \cup {EmptyPull}
     ELSE /\ pc' = [pc EXCEPT ![w].state = "dequeuing", ![w].ts = Some(now)]
          /\ UNCHANGED failed
  /\ UNCHANGED <<lists, hashes, now, issued, calls, offered, pulled, returned,
                 acked, completed, offering, waiter>>

\* pull without the task_type check
PullResultUnchecked(op, t) ==
  IF "task_type" \notin DOMAIN op THEN "Panic"
  ELSE IF "task" \notin DOMAIN op THEN "Panic"
  ELSE IF JsonDecode(op["task"]).err THEN "CodecError"
  ELSE IF JsonDecode(op["task"]).v = NoData THEN "Internal"
  ELSE "Ok"

\* The result of pull once the record has been read back: op["task_type"]
\* is indexed and compared first, then op["task"] is indexed and decoded.
PullResult(op, t) ==
  IF "task_type" \notin DOMAIN op THEN "Panic"
  ELSE IF op["task_type"] # t THEN "InvalidTaskType"
  ELSE IF "task" \notin DOMAIN op THEN "Panic"
  ELSE IF JsonDecode(op["task"]).err THEN "CodecError"
  ELSE IF JsonDecode(op["task"]).v = NoData THEN "Internal"
  ELSE "Ok"

\* RedisQueue::pull, second round trip, as the store executes it: the atomic
\* pipeline that sets the dequeue_* fields, with the dequeue_ts sampled when
\* it was built, and reads the record back.
PullMeta(w) ==
  /\ pc[w].state = "dequeuing"
  /\ LET id == pc[w].id
         op == HSetMultiple(hashes[OperationKey(id)],
                            DequeueFields(pc[w].ctx, pc[w].ts[1]))
     IN /\ hashes' = [hashes EXCEPT ![OperationKey(id)] = op]
        /\ pc' = [pc EXCEPT ![w].state = "read", ![w].op = op]
  /\ UNCHANGED <<lists, now, issued, calls, offered, pulled, returned, failed,
                 acked, completed, offering, waiter>>

\* RedisQueue::pull resumes with the record it read back: the type check, the
\* decode and the return of the message or of the error.
PullReturn(w) ==
  /\ pc[w].state = "read"
  /\ LET id == pc[w].id
         op == pc[w].op
         res == PullResult(op, pc[w].task_type)
     IN /\ returned' = IF res = "Ok"
                        THEN Append(returned, [ack_id |-> id, data |-> JsonDecode(op["task"]).v])
                        ELSE returned
        /\ failed' = IF res = "Ok" THEN failed
                      ELSE failed \cup {[id |-> id, res |-> res]}
  /\ pc' = [pc EXCEPT ![w] = Idle]
  /\ UNCHANGED <<lists, hashes, now, issued, calls, offered, pulled, acked,
                 completed, offering, waiter>>

\* The future of a pull is dropped at one of its awaits, whatever LMOVE
\* answered: before the reply of the LMOVE is taken, before the store has
\* executed the metadata pipeline, or before its reply is taken.  Nothing is
\* returned and nothing is written.
PullCrash(w) ==
  /\ InPull(w)
  /\ pc' = [pc EXCEPT ![w] = Dropped]
  /\ failed' = failed \cup {[id |-> pc[w].id, res |-> "Cancelled"]}
  /\ UNCHANGED <<lists, hashes, now, issued, calls, offered, pulled,
                 returned, acked, completed,
                 offering, waiter>>

\* ------------------------------------------------------------------- ack
\* ack marking the operation done
AckFieldsDone(ctx, ack_ts) ==
  [ack_system_id |-> ctx.system_id, ack_ts |-> ack_ts, ack_user_id |-> ctx.user_id,
   done |-> "true"]

\* ack recording its own status on the record
AckFieldsStatus(ctx, ack_ts) ==
  [ack_system_id |-> ctx.system_id, ack_ts |-> ack_ts, ack_user_id |-> ctx.user_id,
   status |-> "Acked"]

AckFields(ctx, ack_ts) ==
  [ack_system_id |-> ctx.system_id, ack_ts |-> ack_ts, ack_user_id |-> ctx.user_id]

\* The queue ack looks up in the record: HGET operation:{ack_id} queue.
AckQueueOrDefault(h) == IF "queue" \in DOMAIN h THEN h["queue"] ELSE ""

AckQueue(h) == HGet(h, "queue")

\* RedisQueue::ack, first round trip, as the store executes it:
\* HGET operation:{ack_id} queue.  The caller stays suspended until AckSample.
AckLookup(w, ack_id, ctx) ==
  /\ pc[w].state = "idle"
  /\ calls < MaxCalls
  /\ calls' = calls + 1
  /\ pc' = [pc EXCEPT ![w] = [Idle EXCEPT !.state = "looked", !.id = ack_id,
                                          !.queue = AckQueue(hashes[OperationKey(ack_id)]),
                                          !.ctx = ctx]]
  /\ UNCHANGED <<lists, hashes, now, issued, offered, pulled, returned,
                 failed, acked, completed,
                 offering, waiter>>

\* RedisQueue::ack resumes with the reply of its HGET: on nil it returns
\* Err(NotFound); on a queue name it samples the clock for ack_ts, sends its
\* pipeline and is suspended again.
AckSample(w) ==
  /\ pc[w].state = "looked"
  /\ IF pc[w].queue = None
     THEN /\ pc' = [pc EXCEPT ![w] = Idle]
          /\ failed' = failed \cup {[id |-> pc[w].id, res |-> "NotFound"]}
     ELSE /\ pc' = [pc EXCEPT ![w].state = "acking", ![w].ts = Some(now)]
          /\ UNCHANGED failed
  /\ UNCHANGED <<lists, hashes, now, issued, calls, offered, pulled, returned,
                 acked, completed, offering, waiter>>

\* The key and the value handed to LREM by ack's pipeline.
AckLRemKey(queue, ack_id) == "queue:" \o queue
AckLRemValue(queue, ack_id) == queue

\* RedisQueue::ack, second round trip, as the store executes it: the atomic
\* pipeline HSET ack_* ; LREM, with the ack_ts sampled when it was built.
AckPipeline(w) ==
  /\ pc[w].state = "acking"
  /\ LET ack_id == pc[w].id
         queue == pc[w].queue
         key == AckLRemKey(queue, ack_id)
     IN /\ hashes' = [hashes EXCEPT ![OperationKey(ack_id)] =
                        HSetMultiple(@, AckFields(pc[w].ctx, pc[w].ts[1]))]
        /\ lists' = IF key \in DOMAIN lists
                    THEN [lists EXCEPT ![key] = LRem(@, -1, AckLRemValue(queue, ack_id))]
                    ELSE lists
  /\ pc' = [pc EXCEPT ![w].state = "written"]
  /\ UNCHANGED <<now, issued, calls, offered, pulled, returned, failed, acked,
                 completed, offering, waiter>>

\* RedisQueue::ack resumes with the reply of its pipeline and returns Ok(()).
AckReturn(w) ==
  /\ pc[w].state = "written"
  /\ acked' = acked \cup {pc[w].id}
  /\ pc' = [pc EXCEPT ![w] = Idle]
  /\ UNCHANGED <<lists, hashes, now, issued, calls, offered, pulled, returned,
                 failed, completed, offering, waiter>>

\* The future of an ack is dropped at one of its awaits: before the reply of
\* the HGET is taken, before the store has executed the pipeline, or before
\* its reply is taken.  Nothing is returned, and what the store has executed
\* stays written.
AckCrash(w) ==
  /\ InAck(w)
  /\ pc' = [pc EXCEPT ![w] = Dropped]
  /\ UNCHANGED <<lists, hashes, now, issued, calls, offered, pulled, returned,
                 failed, acked, completed, offering, waiter>>

\* -------------------------------------------------------------- complete
\* complete setting done without the status
CompleteFieldsNoStatus(end_ts) ==
  [done |-> "true", end_ts |-> end_ts]

CompleteFields(end_ts) ==
  [done |-> "true", status |-> "Terminated", end_ts |-> end_ts]

\* complete appending its outcome to the one the record already holds
CompleteHashAppend(h, r, end_ts) ==
  LET field == IF r.ok THEN "result" ELSE "error"
      held == IF field \in DOMAIN h THEN h[field] ELSE <<>>
  IN HSet(HSetMultiple(h, CompleteFields(end_ts)), field, held \o EncodeToVec(r.v))

\* The hash after complete's pipeline.
CompleteHash(h, r, end_ts) ==
  IF r.ok
  THEN HSet(HSetMultiple(h, CompleteFields(end_ts)), "result", EncodeToVec(r.v))
  ELSE HSet(HSetMultiple(h, CompleteFields(end_ts)), "error", EncodeToVec(IntoStatus(r.v)))

\* RedisQueue::complete up to the await of its pipeline: the connection is
\* there, the clock is sampled for end_ts and the pipeline is sent; the caller
\* is then suspended in query_async().
CompleteSample(c, id, r) ==
  /\ pc[c].state = "idle"
  /\ calls < MaxCalls
  /\ calls' = calls + 1
  /\ pc' = [pc EXCEPT ![c] = [Idle EXCEPT !.state = "completing", !.id = id,
                                          !.r = Some(r), !.ts = Some(now)]]
  /\ UNCHANGED <<lists, hashes, now, issued, offered, pulled, returned, failed,
                 acked, completed, offering, waiter>>

\* RedisQueue::complete, its atomic pipeline as the store executes it, written
\* with the end_ts sampled when it was built.
Complete(c) ==
  /\ pc[c].state = "completing"
  /\ LET id == pc[c].id
         r == pc[c].r[1]
     IN /\ hashes' = [hashes EXCEPT ![OperationKey(id)] =
                        CompleteHash(@, r, pc[c].ts[1])]
        /\ completed' = [completed EXCEPT ![id] = Append(@, r)]
  /\ pc' = [pc EXCEPT ![c].state = "stored"]
  /\ UNCHANGED <<lists, now, issued, calls, offered, pulled, returned, failed,
                 acked, offering, waiter>>

\* RedisQueue::complete resumes with the reply of its pipeline and returns
\* Ok(()).
CompleteReturn(c) ==
  /\ pc[c].state = "stored"
  /\ pc' = [pc EXCEPT ![c] = Idle]
  /\ UNCHANGED <<lists, hashes, now, issued, calls, offered, pulled, returned,
                 failed, acked, completed, offering, waiter>>

\* ------------------------------------------------------------------ read
\* i64 `/` and `%`: the quotient is rounded towards zero and the remainder has
\* the sign of the dividend.
TruncDiv(a, b) == IF a >= 0 THEN a \div b ELSE -((-a) \div b)
TruncRem(a, b) == a - b * TruncDiv(a, b)

Timestamp(ts) ==
  [seconds |-> TruncDiv(ts, NanosPerSec), nanos |-> TruncRem(ts, NanosPerSec)]

OrDefault(h, field) == IF field \in DOMAIN h THEN h[field] ELSE ""

\* impl FromRedisValue for Operation: the wire form of a record.
FromRedisValue(h) ==
  [operation_id |-> OrDefault(h, "operation_id"),
   metadata |-> [task_type |-> OrDefault(h, "task_type"),
                 task |-> OrDefault(h, "task"),
                 user_id |-> OrDefault(h, "user_id"),
                 queue |-> OrDefault(h, "queue"),
                 status |-> OrDefault(h, "status")],
   done |-> IF "done" \in DOMAIN h THEN h["done"] = "true" ELSE FALSE,
   error |-> NoData,
   response |-> EmptyHash,
   creation_ts |-> IF "publish_ts" \in DOMAIN h THEN Some(Timestamp(h["publish_ts"])) ELSE NoData,
   start_ts |-> IF "dequeue_ts" \in DOMAIN h THEN Some(Timestamp(h["dequeue_ts"])) ELSE NoData,
   end_ts |-> IF "end_ts" \in DOMAIN h THEN Some(Timestamp(h["end_ts"])) ELSE NoData]

Read(id) == FromRedisValue(hashes[OperationKey(id)])

\* ------------------------------------------------------------------ wait
\* longrunning::wait(client, operation_id): loop { Get; return on done or on
\* an RPC error; sleep one second }.  The waiter's log records its Get
\* requests, the responses and errors it received and its sleeps, in order.
GetSent == [ev |-> "get", op |-> NoData, error |-> None]
GetResponse(op) == [ev |-> "response", op |-> Some(op), error |-> None]
GetFailure(e) == [ev |-> "error", op |-> NoData, error |-> e]
Slept == [ev |-> "sleep", op |-> NoData, error |-> None]

ReturnOk(op) == [ok |-> TRUE, op |-> Some(op), error |-> None]
ReturnErr(e) == [ok |-> FALSE, op |-> NoData, error |-> e]

GetsIssued(log) == Cardinality({i \in 1..Len(log) : log[i].ev = "get"})

\* wait returning whatever the first response holds
WaitDoneAlways(operation) == TRUE

\* wait never taking a response for done
WaitDoneNever(operation) == FALSE

\* if operation.done
WaitDone(operation) == operation.done

\* The Operations service's Get: the record of the id in its wire form.
OperationsGet(id) == Read(id)

\* wait is called: operation_id.to_string(), and the loop is entered.
WaitStart(id) ==
  /\ waiter.state = "idle"
  /\ waiter' = [waiter EXCEPT !.state = "loop", !.operation_id = id]
  /\ UNCHANGED qvars

\* client.get(GetOperationRequest {operation_id}) is sent and awaited.
WaitGet ==
  /\ waiter.state = "loop"
  /\ GetsIssued(waiter.log) < MaxGets
  /\ waiter' = [waiter EXCEPT !.state = "awaiting",
                              !.outstanding = @ + 1,
                              !.log = Append(@, GetSent)]
  /\ UNCHANGED qvars

\* Ok(response): return the operation when it is done, go to sleep otherwise.
WaitResponse ==
  /\ waiter.state = "awaiting"
  /\ LET operation == OperationsGet(waiter.operation_id)
     IN waiter' = [waiter EXCEPT
                     !.state = IF WaitDone(operation) THEN "returned" ELSE "sleeping",
                     !.outstanding = @ - 1,
                     !.log = Append(@, GetResponse(operation)),
                     !.result = IF WaitDone(operation)
                                THEN Some(ReturnOk(operation)) ELSE @]
  /\ UNCHANGED qvars

\* wait treating a failed Get as transient: it sleeps and polls again
WaitErrorRetry(e) ==
  /\ waiter.state = "awaiting"
  /\ waiter' = [waiter EXCEPT !.state = "sleeping",
                              !.outstanding = @ - 1,
                              !.log = Append(@, GetFailure(e))]
  /\ UNCHANGED qvars

\* Err(error): return the error.
WaitError(e) ==
  /\ waiter.state = "awaiting"
  /\ waiter' = [waiter EXCEPT !.state = "returned",
                              !.outstanding = @ - 1,
                              !.log = Append(@, GetFailure(e)),
                              !.result = Some(ReturnErr(e))]
  /\ UNCHANGED qvars

\* tokio::time::sleep(Duration::from_millis(1000)) has elapsed.
WaitSleep ==
  /\ waiter.state = "sleeping"
  /\ waiter' = [waiter EXCEPT !.state = "loop", !.log = Append(@, Slept)]
  /\ UNCHANGED qvars

\* --------------------------------------------------------- observations
\* The outcome of the latest complete of id.
LastOutcome(id) == completed[id][Len(completed[id])]
Ready(q) == lists[ReadyKey(q)]
InFlight(q) == lists[AckKey(q)]
Record(id) == hashes[OperationKey(id)]
IsSet(h, field) == field \in DOMAIN h

\* The step is an offer returning its id.
OfferReturns ==
  \E i \in 1..Len(offered) :
    offered[i].operation = NoData /\ offered'[i].operation # NoData
\* The entry of the offer that returns in the step.
Returning ==
  CHOOSE i \in 1..Len(offered) :
    offered[i].operation = NoData /\ offered'[i].operation # NoData
\* The step is the store executing the pipeline of an offer.
OfferExecutes == Len(offered') = Len(offered) + 1
\* The step is worker w's pull resuming with the reply of its LMOVE: the call
\* leaves that await and was not dropped.
PullResumes(w) ==
  /\ pc[w].state = "moved"
  /\ pc'[w] # pc[w]
  /\ ~pc'[w].dropped
\* The step is the store executing the metadata pipeline of worker w's pull.
PullExecutes(w) == pc[w].state = "dequeuing" /\ pc'[w].state = "read"
\* The step is worker w's pull returning a message or an error after its
\* second round trip.
PullReturns(w) ==
  /\ pc[w].state = "read"
  /\ pc'[w].state = "idle"
  /\ ~pc'[w].dropped
\* The step is worker w's ack resuming with the reply of its HGET: the call
\* leaves that await and was not cancelled.
AckResumes(w) ==
  /\ pc[w].state = "looked"
  /\ pc'[w] # pc[w]
  /\ ~pc'[w].dropped
\* The step is the store executing the pipeline of worker w's ack.
AckExecutes(w) == pc[w].state = "acking" /\ pc'[w].state = "written"
\* The step is worker w's ack returning Ok after its pipeline: the call
\* leaves ack and was not cancelled.
AckReturns(w) ==
  /\ pc[w].state = "written"
  /\ pc'[w].state = "idle"
  /\ ~pc'[w].dropped
\* The step is the store executing the pipeline of a complete of id.
CompleteExecutes(id) == completed'[id] # completed[id]
\* The step is a complete of id returning Ok.
CompleteReturns(id) ==
  \E c \in Completers :
    pc[c].state = "stored" /\ pc[c].id = id /\ pc'[c].state = "idle"

\* C1: in the state right after a successful offer on queue `name` returns
\* (also through Broker.enqueue, whose Operation carries the id with
\* done = false), the ready list queue:{name} holds the returned id exactly
\* once and the record has status "New", queue = name,
\* task_type = T::type_name() and user_id = ctx.user_id.
C1_OfferPost ==
  [][OfferReturns =>
       LET o == offered'[Returning]
           id == o.operation[1].operation_id
           h == hashes'[OperationKey(id)]
       IN /\ id = o.id
          /\ o.operation[1].done = FALSE
          /\ Count(lists'[ReadyKey(o.queue)], id) = 1
          /\ HGet(h, "status") = "New"
          /\ HGet(h, "queue") = o.queue
          /\ HGet(h, "task_type") = o.task_type
          /\ HGet(h, "user_id") = o.user_id]_vars

\* C1, amended: the postcondition holds in the state right after the store
\* executes offer's pipeline. When offer returns its id (and Broker.enqueue its
\* Operation with that id and done = false), the record still has queue = name,
\* task_type = T::type_name() and user_id = ctx.user_id; the ready list holds
\* the id exactly once unless a pull has moved it in between, and then not at
\* all; status is "New" unless a complete has run in between, and then
\* "Terminated".
C1_OfferLinearized ==
  [][/\ (OfferExecutes =>
          LET o == offered'[Len(offered')]
              h == hashes'[OperationKey(o.id)]
          IN /\ Count(lists'[ReadyKey(o.queue)], o.id) = 1
             /\ HGet(h, "status") = "New"
             /\ HGet(h, "queue") = o.queue
             /\ HGet(h, "task_type") = o.task_type
             /\ HGet(h, "user_id") = o.user_id)
    /\ (OfferReturns =>
          LET o == offered'[Returning]
              id == o.operation[1].operation_id
              h == hashes'[OperationKey(id)]
          IN /\ id = o.id
             /\ o.operation[1].done = FALSE
             /\ Count(lists'[ReadyKey(o.queue)], id) =
                  (IF id \in Elems(pulled') THEN 0 ELSE 1)
             /\ HGet(h, "status") =
                  (IF completed'[id] # NoData THEN "Terminated" ELSE "New")
             /\ HGet(h, "queue") = o.queue
             /\ HGet(h, "task_type") = o.task_type
             /\ HGet(h, "user_id") = o.user_id)]_vars

\* one offer has returned, and another, its pipeline executed and its id
\* already moved by a pull, is about to return
C1_Witness ==
  /\ \E i \in 1..Len(offered) : offered[i].operation # NoData
  /\ \E p \in Producers :
       /\ offering[p] # NoData
       /\ offering[p][1].executed
       /\ offering[p][1].id \in Elems(pulled)

\* C2: right after a successful pull that returns ack_id = id, id is on the
\* in-flight list queue:ack:{name}, not on the ready list queue:{name}, and the
\* record has dequeue_ts set, dequeue_ts >= publish_ts, and the puller's
\* system and user id in dequeue_system_id / dequeue_user_id.
C2_PullPost ==
  [][\A w \in Workers :
       (PullReturns(w) /\ Len(returned') = Len(returned) + 1) =>
         LET id == returned'[Len(returned')].ack_id
             q == pc[w].queue
             h == hashes'[OperationKey(id)]
         IN /\ id = pc[w].id
            /\ id \in Elems(lists'[AckKey(q)])
            /\ id \notin Elems(lists'[ReadyKey(q)])
            /\ IsSet(h, "dequeue_ts") /\ IsSet(h, "publish_ts")
            /\ h["dequeue_ts"] >= h["publish_ts"]
            /\ HGet(h, "dequeue_system_id") = pc[w].ctx.system_id
            /\ HGet(h, "dequeue_user_id") = pc[w].ctx.user_id]_vars

\* C3: after a successful ack(id) of an id that was pulled, id is no longer on
\* the in-flight list of the queue named in its record.
C3_AckRemovesInFlight ==
  \A id \in acked :
    id \in Elems(pulled) => id \notin Elems(InFlight(Record(id)["queue"]))

\* C4: a pull whose record has another task_type than the consumer's returns
\* InvalidTaskType and no message; at its return the id is on the in-flight
\* list and not on the ready list, and the record's task_type is the one that
\* was read.  No step of a pull after its LMOVE touches a list or a task_type.
C4_MismatchPost ==
  [][\A w \in Workers :
       LET id == pc[w].id
           q == pc[w].queue
       IN /\ (PullReturns(w) /\ HGet(pc[w].op, "task_type") # pc[w].task_type) =>
               /\ [id |-> id, res |-> "InvalidTaskType"] \in failed'
               /\ returned' = returned
               /\ id \in Elems(lists'[AckKey(q)])
               /\ id \notin Elems(lists'[ReadyKey(q)])
               /\ HGet(hashes'[OperationKey(id)], "task_type") = HGet(pc[w].op, "task_type")
          /\ (InPull(w) /\ id # None /\ pc'[w] # pc[w]) =>
               /\ lists' = lists
               /\ HGet(hashes'[OperationKey(id)], "task_type") =
                    HGet(Record(id), "task_type")]_vars

\* a pull has returned InvalidTaskType for a record of the other type, and the
\* id is on the in-flight list
C4_Witness ==
  \E f \in failed :
    /\ f.res = "InvalidTaskType"
    /\ f.id \in Elems(InFlight("qa"))
    /\ Record(f.id)["task_type"] = "demo::Task"

\* The result and the error a reader finds in the wire form of a record.
ReadResult(id) == IF Read(id).response = EmptyHash THEN NoData ELSE Some(Read(id).response)
ReadError(id) == Read(id).error

\* C5: after complete(id, Ok(m)) a read of id returns done = true, status
\* "Terminated", result = encode(m) and no error; after complete(id, Err(e))
\* it returns done = true, status "Terminated", error = encode(Status of e)
\* and no result.
C5_ReadAfterComplete ==
  \A id \in IdUniverse :
    completed[id] # NoData =>
      LET r == LastOutcome(id)
      IN /\ Read(id).done
         /\ Read(id).metadata.status = "Terminated"
         /\ r.ok => (ReadResult(id) = Some(EncodeToVec(r.v)) /\ ReadError(id) = NoData)
         /\ ~r.ok => (ReadError(id) = Some(EncodeToVec(IntoStatus(r.v)))
                      /\ ReadResult(id) = NoData)

\* C6: every record with done = true has exactly one of result and error set.
C6_ExactlyOneOutcome ==
  \A id \in IdUniverse :
    HGet(Record(id), "done") = "true" =>
      (IsSet(Record(id), "result") # IsSet(Record(id), "error"))

\* C7: no id is on both the ready list and the in-flight list, and no id
\* occurs twice on either.
C7_AtMostOnce ==
  \A id \in IdUniverse :
    /\ \A k \in ListKeys : Count(lists[k], id) <= 1
    /\ \A k1, k2 \in ListKeys :
         k1 # k2 => ~(id \in Elems(lists[k1]) /\ id \in Elems(lists[k2]))

C7_Witness ==
  /\ Ready("qa") # <<>>
  /\ InFlight("qa") # <<>>
  /\ \E w \in Workers : pc[w].state = "moved"
  /\ \E w \in Workers : pc[w].state = "acking"

\* C8: every id offer returned that has not been acked successfully is on the
\* ready list or on the in-flight list of its queue, also after a puller was
\* cancelled between the list move and the metadata pipeline.
C8_NeverLost ==
  \A i \in 1..Len(offered) :
    offered[i].id \notin acked =>
      offered[i].id \in Elems(Ready(offered[i].queue)) \cup Elems(InFlight(offered[i].queue))

C8_Witness ==
  \E f \in failed :
    /\ f.res = "Cancelled"
    /\ f.id \notin acked
    /\ f.id \in Elems(InFlight("qa"))
    /\ ~IsSet(Record(f.id), "dequeue_ts")

\* C9 as stated: status advances New -> Dequeued -> Terminated, is New after
\* offer, Dequeued once the id has been pulled successfully, Terminated once
\* completed, never moves back, and done = true iff status = Terminated.
C9_StatusLifecycle ==
  [][\A id \in IdUniverse :
       LET h == Record(id)
           h2 == hashes'[OperationKey(id)]
       IN /\ h2 # EmptyHash => HGet(h2, "status") \in {"New", "Dequeued", "Terminated"}
          /\ HGet(h, "status") = "Terminated" => HGet(h2, "status") = "Terminated"
          /\ HGet(h, "status") = "Dequeued" => HGet(h2, "status") # "New"
          /\ (HGet(h2, "done") = "true") <=> (HGet(h2, "status") = "Terminated")
          /\ (OfferExecutes /\ id = offered'[Len(offered')].id) => HGet(h2, "status") = "New"
          /\ (\E w \in Workers : PullReturns(w) /\ pc[w].id = id /\ returned' # returned)
               => HGet(h2, "status") \in {"Dequeued", "Terminated"}
          /\ (CompleteExecutes(id) \/ CompleteReturns(id))
               => HGet(h2, "status") = "Terminated"]_vars

\* C9, amended: status only takes the values New and Terminated and never moves
\* back: New when offer's pipeline has written the record, left as it is by
\* every step of a pull (which writes only dequeue_*) and of an ack, so that a
\* pull returns its message with the status New or Terminated, and Terminated
\* from complete's pipeline on, also when complete returns; done = true iff
\* status = Terminated.
C9_StatusMonotone ==
  [][\A id \in IdUniverse :
       LET h == Record(id)
           h2 == hashes'[OperationKey(id)]
       IN /\ h2 # EmptyHash => HGet(h2, "status") \in {"New", "Terminated"}
          /\ HGet(h, "status") = "Terminated" => HGet(h2, "status") = "Terminated"
          /\ (HGet(h2, "done") = "true") <=> (HGet(h2, "status") = "Terminated")
          /\ (OfferExecutes /\ id = offered'[Len(offered')].id) => HGet(h2, "status") = "New"
          /\ (\E w \in Workers :
                 /\ pc[w].id = id
                 /\ pc'[w] # pc[w]
                 /\ InPull(w) \/ InAck(w))
               => HGet(h2, "status") = HGet(h, "status")
          /\ (\E w \in Workers : PullReturns(w) /\ pc[w].id = id /\ returned' # returned)
               => HGet(h2, "status") \in {"New", "Terminated"}
          /\ (CompleteExecutes(id) \/ CompleteReturns(id))
               => HGet(h2, "status") = "Terminated"]_vars

\* a record that was offered, pulled successfully and then completed, and
\* another that was pulled successfully and still has status New
C9_Witness ==
  /\ \E i \in 1..Len(returned) :
       /\ HGet(Record(returned[i].ack_id), "status") = "Terminated"
       /\ completed[returned[i].ack_id] # NoData
  /\ \E i \in 1..Len(returned) :
       /\ HGet(Record(returned[i].ack_id), "status") = "New"
       /\ IsSet(Record(returned[i].ack_id), "dequeue_ts")

Ids(log) == [i \in 1..Len(log) |-> log[i].id]
AckIds(log) == [i \in 1..Len(log) |-> log[i].ack_id]
IsPrefix(a, b) == Len(a) <= Len(b) /\ SubSeq(b, 1, Len(a)) = a
Position(seq, v) == CHOOSE i \in 1..Len(seq) : seq[i] = v

\* The position of the offer of id among the offers.
OfferIndex(id) == Position(Ids(offered), id)
\* The consumer whose pull wrote the dequeue_* fields of id.
Puller(id) == HGet(Record(id), "dequeue_user_id")

\* C10: pulls take the ids of a queue in the order the offers pushed them.  The
\* ids moved by pull are a prefix of the ids offered; a pull returns the id its
\* LMOVE moved; a pull whose LMOVE runs after another pull has returned, as
\* that of a later sequential pull does, moves an id offered after the one
\* returned; and the messages returned to one consumer, whose pulls are
\* sequential, come in the order of the offers.
C10_Fifo ==
  [][/\ IsPrefix(pulled', Ids(offered'))
     /\ \A w \in Workers :
          /\ (PullReturns(w) /\ returned' # returned) =>
               AckIds(returned') = Append(AckIds(returned), pc[w].id)
          /\ (pc[w].state = "idle" /\ pc'[w].state = "moved" /\ pc'[w].id # None) =>
               /\ \A i \in 1..Len(returned) :
                    OfferIndex(returned[i].ack_id) < OfferIndex(pc'[w].id)
               /\ \A j \in 1..(OfferIndex(pc'[w].id) - 1) :
                    offered[j].id \in Elems(pulled)
     /\ \A i, j \in 1..Len(returned) :
          (i < j /\ Puller(returned[i].ack_id) = Puller(returned[j].ack_id)) =>
            OfferIndex(returned[i].ack_id) < OfferIndex(returned[j].ack_id)]_vars

\* two messages returned to the same consumer, in the order of the two offers
C10_Witness ==
  /\ Len(returned) = 2
  /\ AckIds(returned) = Ids(offered)
  /\ Puller(returned[1].ack_id) = Puller(returned[2].ack_id)
  /\ Ready("qa") = <<>>

\* C11: ack on an id whose record has no queue field (an id offer never
\* returned included) gets nil from its lookup and returns NotFound when it
\* resumes, and the store is as it was: neither step changes a list or a
\* record, no second round trip is started whether the call resumes or is
\* cancelled, and a record without a queue field never carries an ack_* field.
C11_AckNotFound ==
  [][/\ \A w \in Ackers :
          /\ \A id \in KnownIds :
               (AckLookup(w, id, WorkerCtx(w)) /\ ~IsSet(Record(id), "queue")) =>
                 /\ AckQueue(Record(id)) = None
                 /\ pc'[w].queue = None
                 /\ hashes' = hashes
                 /\ lists' = lists
                 /\ acked' = acked
          /\ (AckResumes(w) /\ pc[w].queue = None) =>
                 /\ pc'[w] = Idle
                 /\ [id |-> pc[w].id, res |-> "NotFound"] \in failed'
          /\ (pc[w].state = "looked" /\ pc[w].queue = None /\ pc'[w] # pc[w]) =>
                 /\ pc'[w].state = "idle"
                 /\ hashes' = hashes
                 /\ lists' = lists
                 /\ acked' = acked
     /\ \A id \in IdUniverse :
          ~IsSet(hashes'[OperationKey(id)], "queue") =>
            /\ id \notin acked'
            /\ \A f \in DOMAIN AckFields(NoCtx, 0) :
                 ~IsSet(hashes'[OperationKey(id)], f)]_vars

\* the only call made so far was an ack of the unknown id, which has returned
\* NotFound: nothing was completed, no caller is inside ack or complete, no
\* ack succeeded, and a message is in flight
C11_Witness ==
  /\ calls = 1
  /\ acked = {}
  /\ [id |-> GhostId, res |-> "NotFound"] \in failed
  /\ \A w \in Workers : ~InAck(w)
  /\ \A c \in Completers : pc[c].state = "idle"
  /\ \A id \in IdUniverse : completed[id] = NoData
  /\ Record(GhostId) = EmptyHash
  /\ ~IsSet(Record(GhostId), "queue")
  /\ InFlight("qa") # <<>>

\* ------------------------------------------------------------- the waiter
Responses(log) == {i \in 1..Len(log) : log[i].ev = "response"}
DoneResponses(log) == {i \in Responses(log) : log[i].op[1].done}
WaitReturnedOk == waiter.result # NoData /\ waiter.result[1].ok
WaitReturnedErr == waiter.result # NoData /\ ~waiter.result[1].ok

\* C12: wait returns Ok only with the Operation of the first Get response
\* whose done flag is true: what it returns is done, is the response it
\* received last, no earlier response was done, and nothing (no Get, no sleep)
\* follows a done response.
C12_ReturnsFirstDone ==
  LET log == waiter.log
  IN /\ WaitReturnedOk =>
          /\ waiter.state = "returned"
          /\ DoneResponses(log) = {Len(log)}
          /\ waiter.result[1].op = log[Len(log)].op
          /\ waiter.result[1].op[1].done = TRUE
     /\ \A i \in DoneResponses(log) :
          /\ i = Len(log)
          /\ WaitReturnedOk

\* wait has returned Ok at its second Get, the first response not being done
C12_Witness ==
  /\ WaitReturnedOk
  /\ GetsIssued(waiter.log) = 2
  /\ Cardinality(Responses(waiter.log)) = 2
  /\ waiter.result[1].op[1].operation_id = Uuid(1)

\* C13: a failed Get ends wait at once with exactly that error: the error is
\* the last entry of the log, right after its Get, no sleep, retry or Get
\* follows it, and a Get is outstanding only while wait awaits it, one at most.
C13_ErrorTerminates ==
  LET log == waiter.log
  IN /\ waiter.outstanding \in {0, 1}
     /\ waiter.outstanding = 1 <=> waiter.state = "awaiting"
     /\ waiter.outstanding = 1 <=> (log # <<>> /\ log[Len(log)].ev = "get")
     /\ \A i \in 1..Len(log) :
          log[i].ev = "error" =>
            /\ i = Len(log)
            /\ i > 1 /\ log[i - 1].ev = "get"
            /\ waiter.state = "returned"
            /\ waiter.result = Some(ReturnErr(log[i].error))
     /\ WaitReturnedErr => log[Len(log)].ev = "error"

\* the second Get failed and wait returned its error
C13_Witness ==
  /\ WaitReturnedErr
  /\ waiter.result[1].error \in RpcErrors
  /\ GetsIssued(waiter.log) = 2
  /\ waiter.state = "returned"

\* C14: a record comes into existence only inside offer and is never deleted:
\* in every state the ids that have a record are exactly the ids offer has
\* returned, whatever pull, ack and complete calls were made, calls with an id
\* offer never returned included.
C14_RecordsOnlyFromOffer ==
  \A id \in IdUniverse : Record(id) # EmptyHash <=> id \in OfferedIds

AckFieldNames == DOMAIN AckFields(NoCtx, 0)
CompleteFieldNames == DOMAIN CompleteFields(0) \cup {"result", "error"}
Restrict(h, fields) == [f \in DOMAIN h \cap fields |-> h[f]]

\* C15: complete(id, r) and ack(id) commute.  Once a pulled id has been acked
\* and completed, by one call each and in whatever order their three store
\* steps ran, its record is the one ack followed by complete produces and the
\* one complete followed by ack produces from the fields offer and pull wrote,
\* and the ready list is the one the offers and pulls alone produce.
C15_AckCompleteCommute ==
  \A id \in OfferedIds :
    (/\ id \in Elems(pulled)
     /\ id \in acked
     /\ completed[id] # NoData
     /\ calls = 2) =>
      LET r == LastOutcome(id)
          h == Record(id)
          base == Restrict(h, DOMAIN h \ (AckFieldNames \cup CompleteFieldNames))
      IN /\ \E w \in Ackers :
              /\ h = CompleteHash(HSetMultiple(base, AckFields(WorkerCtx(w), now)), r, now)
              /\ h = HSetMultiple(CompleteHash(base, r, now), AckFields(WorkerCtx(w), now))
         /\ IsSet(base, "queue") /\ IsSet(base, "task") /\ IsSet(base, "task_type")
         /\ \A q \in Queues :
              /\ Elems(Ready(q)) = Elems(Ids(offered)) \ Elems(pulled)
              /\ Len(Ready(q)) = Len(offered) - Len(pulled)
              /\ Elems(InFlight(q)) \subseteq Elems(pulled)

\* a pulled id that one ack and one complete have both been applied to
C15_Witness ==
  \E id \in OfferedIds :
    /\ id \in Elems(pulled)
    /\ id \in acked
    /\ completed[id] # NoData
    /\ calls = 2
    /\ IsSet(Record(id), "ack_ts")
    /\ HGet(Record(id), "done") = "true"

\* C16: complete is idempotent.  When the store executes the pipeline of a
\* complete(id, r) whose outcome is the one the latest complete of the same id
\* stored, the store is left as that call left it: the same lists, and the same
\* record, done, status, result and error included, the sampled end_ts set
\* aside.  The return of a complete changes nothing in the store.
C16_CompleteIdempotent ==
  [][\A c \in Completers :
       LET id == pc[c].id
           h == Record(id)
           h2 == hashes'[OperationKey(id)]
       IN /\ (/\ pc[c].state = "completing"
               /\ pc'[c].state = "stored"
               /\ completed[id] # NoData
               /\ LastOutcome(id) = pc[c].r[1]) =>
               /\ Restrict(h2, DOMAIN h2 \ {"end_ts"}) = Restrict(h, DOMAIN h \ {"end_ts"})
               /\ \A f \in {"done", "status", "result", "error"} : HGet(h2, f) = HGet(h, f)
               /\ IsSet(h2, "end_ts")
               /\ lists' = lists
               /\ \A k \in HashKeys \ {OperationKey(id)} : hashes'[k] = hashes[k]
          /\ CompleteReturns(id) => (hashes' = hashes /\ lists' = lists)]_vars

\* an offered id that was pulled and then completed twice with the same result
C16_Witness ==
  \E id \in OfferedIds :
    /\ Len(completed[id]) = 2
    /\ completed[id][1] = completed[id][2]
    /\ completed[id][1].ok
    /\ \A c \in Completers : pc[c].state = "idle"
    /\ id \in Elems(InFlight("qa"))
    /\ IsSet(Record(id), "result") /\ ~IsSet(Record(id), "error")
    /\ HGet(Record(id), "done") = "true"

\* C17: pull on an empty ready list returns Ok(None) and leaves the whole
\* store as it was.  Its LMOVE finds the source empty, replies nil and changes
\* no list and no record; when the pull resumes it returns Ok(None); resumed
\* or dropped, it starts no second round trip, returns no message and writes
\* nothing.
C17_EmptyPull ==
  [][\A w \in Workers :
       /\ (/\ pc[w].state = "idle"
           /\ pc'[w].state = "moved"
           /\ Ready(pc'[w].queue) = <<>>) =>
              /\ pc'[w].id = None
              /\ lists' = lists
              /\ hashes' = hashes
              /\ pulled' = pulled
              /\ returned' = returned
              /\ failed' = failed
       /\ (PullResumes(w) /\ pc[w].id = None) =>
              /\ pc'[w] = Idle
              /\ EmptyPull \in failed'
       /\ (pc[w].state = "moved" /\ pc[w].id = None /\ pc'[w] # pc[w]) =>
              /\ pc'[w].state = "idle"
              /\ lists' = lists
              /\ hashes' = hashes
              /\ pulled' = pulled
              /\ returned' = returned]_vars

\* an empty pull has returned Ok(None), and another has got nil from its LMOVE
\* while the ready list is empty, one id is in flight and its record exists
C17_Witness ==
  /\ EmptyPull \in failed
  /\ \E w \in Workers : pc[w].state = "moved" /\ pc[w].id = None
  /\ Ready("qa") = <<>>
  /\ InFlight("qa") # <<>>
  /\ \A id \in Elems(InFlight("qa")) : Record(id) # EmptyHash

\* C18: ack never marks an operation done.  The pipeline of an ack(id) writes
\* only ack_system_id, ack_ts and ack_user_id on the record of id: done, status,
\* result, error, end_ts, task, task_type and queue are as they were, set or
\* not, no other record changes and the ready list is unchanged.  When the ack
\* returns Ok the three fields are set and the store does not change.
C18_AckFrame ==
  [][\A w \in Workers :
       LET id == pc[w].id
           h == Record(id)
           h2 == hashes'[OperationKey(id)]
       IN /\ AckExecutes(w) =>
               /\ DOMAIN h2 = DOMAIN h \cup {"ack_system_id", "ack_ts", "ack_user_id"}
               /\ \A f \in DOMAIN h \ {"ack_system_id", "ack_ts", "ack_user_id"} :
                    h2[f] = h[f]
               /\ \A f \in {"done", "status", "result", "error", "end_ts", "task",
                            "task_type", "queue"} :
                    /\ IsSet(h2, f) <=> IsSet(h, f)
                    /\ HGet(h2, f) = HGet(h, f)
               /\ \A k \in HashKeys \ {OperationKey(id)} : hashes'[k] = hashes[k]
               /\ \A q \in Queues : lists'[ReadyKey(q)] = Ready(q)
          /\ AckReturns(w) =>
               /\ id \in acked'
               /\ \A f \in {"ack_system_id", "ack_ts", "ack_user_id"} : IsSet(h2, f)
               /\ hashes' = hashes
               /\ lists' = lists]_vars

\* an acked record that is not done while ids wait on the ready list
C18_Witness ==
  \E id \in acked :
    /\ IsSet(Record(id), "ack_ts")
    /\ HGet(Record(id), "ack_user_id") = Ctx1.user_id
    /\ ~IsSet(Record(id), "done")
    /\ HGet(Record(id), "status") = "New"
    /\ Ready("qa") # <<>>
    /\ Read(id).done = FALSE

\* C19: no duplicate hand-off.  Whatever the interleaving of the consumers'
\* pulls, each id is moved out of the ready list by at most one pull: no id
\* occurs twice among the ids moved, two pulls in progress that were handed an
\* id hold different ids, and no two messages returned carry the same ack_id.
C19_NoDuplicateHandOff ==
  /\ \A i, j \in 1..Len(pulled) : i # j => pulled[i] # pulled[j]
  /\ \A w, v \in Workers :
       (w # v /\ InPull(w) /\ InPull(v) /\ pc[w].id # None) => pc[w].id # pc[v].id
  /\ \A i, j \in 1..Len(returned) : i # j => returned[i].ack_id # returned[j].ack_id
  /\ \A i \in 1..Len(returned) : returned[i].ack_id \in Elems(pulled)

\* two consumers are inside pull at once, each between its list move and its
\* metadata pipeline
C19_Witness ==
  /\ \A w \in Workers : pc[w].state = "moved"
  /\ Len(pulled) = 2
  /\ Ready("qa") = <<>>

WaitPending == waiter.state \in {"loop", "awaiting", "sleeping"}
\* the Gets the model still lets a pending wait send
CanPoll == GetsIssued(waiter.log) < MaxGets \/ waiter.state = "awaiting"

\* while the operation is not done and Get succeeds wait does not return, and
\* its log repeats Get, response, sleep: one sleep between two Gets
WaitCadence ==
  LET log == waiter.log
  IN \A i \in 1..Len(log) :
       /\ (log[i].ev = "response" /\ ~log[i].op[1].done) =>
            /\ i = Len(log) => (waiter.state = "sleeping" /\ waiter.result = NoData)
            /\ i < Len(log) => log[i + 1].ev = "sleep"
       /\ log[i].ev = "sleep" =>
            /\ log[i - 1].ev = "response"
            /\ i = Len(log) => (waiter.state = "loop" /\ waiter.result = NoData)
            /\ i < Len(log) => log[i + 1].ev = "get"
       /\ log[i].ev = "get" => (i = 1 \/ log[i - 1].ev = "sleep")

\* C20: waiter liveness.  Once the record of the awaited operation is done, a
\* pending wait returns: Ok with a done Operation, or the error of a failed
\* Get.  Until then, while the responses are not done, it does not return and
\* sleeps exactly once between two consecutive Gets.
C20_WaitReturns ==
  /\ [](WaitCadence)
  /\ (WaitPending /\ Read(waiter.operation_id).done /\ CanPoll)
       ~> (\/ WaitReturnedOk /\ waiter.result[1].op[1].done
           \/ WaitReturnedErr)

\* wait returned Ok at its third Get, after two responses that were not done
\* and two sleeps
C20_Witness ==
  /\ WaitReturnedOk
  /\ waiter.result[1].op[1].done
  /\ GetsIssued(waiter.log) = 3
  /\ Cardinality({i \in 1..Len(waiter.log) : waiter.log[i].ev = "sleep"}) = 2

\* ------------------------------------------------------------------ Next
\* The four operations on one queue under concurrent callers: a producer, two
\* consumers of the producer's item type that pull whatever the ready list
\* holds, one of them acking, and a caller completing the offered operations
\* with a result.  The clock stands still, which loses nothing for the claims
\* checked here: the code only writes the timestamps it samples and never
\* branches on them.
Next ==
  \/ \E item \in Items : OfferSample(TaskProducer, item)
  \/ Offer(TaskProducer)
  \/ OfferReturn(TaskProducer)
  \/ \E w \in Workers :
       PullMove(w, TaskQueue.queue, TaskQueue.task_type, WorkerCtx(w))
  \/ \E w \in Workers : PullSample(w)
  \/ \E w \in Workers : PullMeta(w)
  \/ \E w \in Workers : PullReturn(w)
  \/ \E w \in Ackers, id \in OfferedIds : AckLookup(w, id, WorkerCtx(w))
  \/ \E w \in Ackers : AckSample(w)
  \/ \E w \in Ackers : AckPipeline(w)
  \/ \E w \in Ackers : AckReturn(w)
  \/ \E c \in Completers, id \in OfferedIds, m \in Outputs :
       CompleteSample(c, id, [ok |-> TRUE, v |-> m])
  \/ \E c \in Completers : Complete(c)
  \/ \E c \in Completers : CompleteReturn(c)

Spec == Init /\ [][Next]_vars

\* offer and pull alone: the two consumers, one of them also under the other
\* item type, whose pulls may be dropped at any await.
NextPull ==
  \/ \E item \in Items : OfferSample(TaskProducer, item)
  \/ Offer(TaskProducer)
  \/ OfferReturn(TaskProducer)
  \/ \E w \in Workers : \E inst \in WorkerQueues(w) :
       PullMove(w, inst.queue, inst.task_type, WorkerCtx(w))
  \/ \E w \in Workers : PullSample(w)
  \/ \E w \in Workers : PullMeta(w)
  \/ \E w \in Workers : PullReturn(w)
  \/ \E w \in Workers : PullCrash(w)

SpecPull == Init /\ [][NextPull]_vars

\* One consumer that pulls and acks, and whose acks may be dropped at any
\* await, and a caller that completes with a result or an
\* error; ack and complete are also called with an id offer never returned.
NextAck ==
  \/ \E item \in Items : OfferSample(TaskProducer, item)
  \/ Offer(TaskProducer)
  \/ OfferReturn(TaskProducer)
  \/ \E w \in Ackers :
       PullMove(w, TaskQueue.queue, TaskQueue.task_type, WorkerCtx(w))
  \/ \E w \in Ackers : PullSample(w)
  \/ \E w \in Ackers : PullMeta(w)
  \/ \E w \in Ackers : PullReturn(w)
  \/ \E w \in Ackers, id \in KnownIds : AckLookup(w, id, WorkerCtx(w))
  \/ \E w \in Ackers : AckSample(w)
  \/ \E w \in Ackers : AckPipeline(w)
  \/ \E w \in Ackers : AckReturn(w)
  \/ \E w \in Ackers : AckCrash(w)
  \/ \E c \in Completers, id \in KnownIds, r \in Outcomes : CompleteSample(c, id, r)
  \/ \E c \in Completers : Complete(c)
  \/ \E c \in Completers : CompleteReturn(c)

SpecAck == Init /\ [][NextAck]_vars

\* One consumer that pulls and acks what was offered, and whose calls may be
\* dropped at any await.
NextCancel ==
  \/ \E item \in Items : OfferSample(TaskProducer, item)
  \/ Offer(TaskProducer)
  \/ OfferReturn(TaskProducer)
  \/ \E w \in Ackers :
       PullMove(w, TaskQueue.queue, TaskQueue.task_type, WorkerCtx(w))
  \/ \E w \in Ackers : PullSample(w)
  \/ \E w \in Ackers : PullMeta(w)
  \/ \E w \in Ackers : PullReturn(w)
  \/ \E w \in Ackers : PullCrash(w)
  \/ \E w \in Ackers, id \in OfferedIds : AckLookup(w, id, WorkerCtx(w))
  \/ \E w \in Ackers : AckSample(w)
  \/ \E w \in Ackers : AckPipeline(w)
  \/ \E w \in Ackers : AckReturn(w)
  \/ \E w \in Ackers : AckCrash(w)

SpecCancel == Init /\ [][NextCancel]_vars

\* offer and pull under the wall clock, with two producers of different item
\* types.
NextClock ==
  \/ Tick
  \/ \E p \in Producers, item \in Items : OfferSample(p, item)
  \/ \E p \in Producers : Offer(p)
  \/ \E p \in Producers : OfferReturn(p)
  \/ \E w \in Workers : \E inst \in WorkerQueues(w) :
       PullMove(w, inst.queue, inst.task_type, WorkerCtx(w))
  \/ \E w \in Workers : PullSample(w)
  \/ \E w \in Workers : PullMeta(w)
  \/ \E w \in Workers : PullReturn(w)

SpecClock == Init /\ [][NextClock]_vars
\* The waiter polling the record of one operation while producers offer and
\* workers complete.
NextWait ==
  \/ \E item \in Items : OfferSample(TaskProducer, item)
  \/ Offer(TaskProducer)
  \/ OfferReturn(TaskProducer)
  \/ \E c \in Completers, id \in KnownIds, r \in Outcomes : CompleteSample(c, id, r)
  \/ \E c \in Completers : Complete(c)
  \/ \E c \in Completers : CompleteReturn(c)
  \/ \E id \in KnownIds : WaitStart(id)
  \/ WaitGet
  \/ WaitResponse
  \/ \E e \in RpcErrors : WaitError(e)
  \/ WaitSleep

SpecWait == Init /\ [][NextWait]_vars
\* The runtime keeps polling the future of wait: a Get that was sent is
\* answered, a sleep ends after its second, and the loop goes on to its next Get.
SpecWaitFair ==
  /\ SpecWait
  /\ WF_vars(WaitGet)
  /\ WF_vars(WaitResponse)
  /\ WF_vars(WaitSleep)
====
